---- MODULE Spec2Model ----
(***************************************************************************)
(* Model of xdg-dirs (src/src/lib.rs): the XDG basedir descriptors and the *)
(* three resolver operations xdg_user_dir, xdg_system_dirs and             *)
(* xdg_location_of, run against a process environment and a filesystem.    *)
(*                                                                         *)
(* A string is a sequence of tokens: the separators "/" and ":" are tokens *)
(* of their own and every other token is a piece of a file name; a file    *)
(* name is a maximal run of tokens without a separator, and ".." alone is  *)
(* the parent-directory name.  A PathBuf holds the same token sequence     *)
(* (PathBuf::from_str copies the string).  Environment values are Unicode  *)
(* strings (env::var yields Err for a variable that is not set).           *)
(***************************************************************************)
EXTENDS Naturals, Sequences, FiniteSets

VARIABLES
  xdg_dir,  \* the descriptor the caller works with (one of mod dirs)
  env,      \* the process environment: each variable unset or set to a string
  fs,       \* the filesystem: the nodes that exist
  last      \* the call just made and the value it returned, until dropped

vars == <<xdg_dir, env, fs, last>>

\* ------------------------------------------------------------------ bounds

\* At most this many of the files of Targets exist at once.
MaxFiles == 2

\* ----------------------------------------------------------- Option, Result

None == [some |-> FALSE]
Some(v) == [some |-> TRUE, val |-> v]

Ok(v) == [ok |-> TRUE, val |-> v]
Err(e) == [ok |-> FALSE, err |-> e]

\* ------------------------------------------------------------------ Error

NoHome == [kind |-> "NoHome"]
EnvVarNotSet(var) == [kind |-> "EnvVarNotSet", var |-> var]
NotFound(suffix) == [kind |-> "NotFound", suffix |-> suffix]

\* --------------------------------------------------------------- registry

CONFIG ==
  [ env_var         |-> "XDG_CONFIG_HOME",
    home_fallback   |-> Some(<<".config", "/">>),
    system_var      |-> Some("XDG_CONFIG_DIRS"),
    system_fallback |-> Some(<< <<"/", "etc", "/", "xdg">> >>) ]

DATA ==
  [ env_var         |-> "XDG_DATA_HOME",
    home_fallback   |-> Some(<<".local", "/", "share", "/">>),
    system_var      |-> Some("XDG_DATA_DIRS"),
    system_fallback |-> Some(<< <<"/", "usr", "/", "local", "/", "share", "/">>,
                                <<"/", "usr", "/", "share", "/">> >>) ]

CACHE ==
  [ env_var         |-> "XDG_CACHE_HOME",
    home_fallback   |-> Some(<<".cache", "/">>),
    system_var      |-> None,
    system_fallback |-> None ]

STATE_DIR ==
  [ env_var         |-> "XDG_STATE_HOME",
    home_fallback   |-> Some(<<".local", "/", "state", "/">>),
    system_var      |-> None,
    system_fallback |-> None ]

RUNTIME ==
  [ env_var         |-> "XDG_RUNTIME_DIR",
    home_fallback   |-> None,
    system_var      |-> None,
    system_fallback |-> None ]

Dirs == {CONFIG, DATA, CACHE, STATE_DIR, RUNTIME}

EnvNames ==
  {"HOME"} \cup {d.env_var : d \in Dirs}
           \cup {d.system_var.val : d \in {x \in Dirs : x.system_var.some}}

\* ------------------------------------------------------------------ paths

\* Path::is_absolute on Unix: the path starts with the separator.
IsAbsolute(p) == p # <<>> /\ p[1] = "/"

\* Push without the separator check: the two strings are glued together.
Push_NoSeparator(buf, p) == IF IsAbsolute(p) THEN p ELSE buf \o p

\* Push that joins with a separator whatever the buffer holds.
Push_AlwaysSeparator(buf, p) == IF IsAbsolute(p) THEN p ELSE buf \o <<"/">> \o p

\* PathBuf::push(p): an absolute p replaces the buffer; otherwise a separator
\* is added unless the buffer is empty or already ends with one, then p.
Push(buf, p) ==
  IF IsAbsolute(p) THEN p
  ELSE IF buf # <<>> /\ buf[Len(buf)] # "/" THEN buf \o <<"/">> \o p
  ELSE buf \o p

\* The names of a path: its maximal runs of tokens between separators
\* (repeated and trailing separators name nothing).
RECURSIVE Names(_)
Names(p) ==
  IF p = <<>> THEN <<>>
  ELSE IF p[1] = "/" THEN Names(Tail(p))
  ELSE LET stops == {k \in 1..Len(p) : p[k] = "/"}
           n == IF stops = {} THEN Len(p)
                ELSE (CHOOSE k \in stops : \A j \in stops : k <= j) - 1
       IN <<SubSeq(p, 1, n)>> \o Names(SubSeq(p, n + 1, Len(p)))

\* Path::components, by which two paths are compared (PartialEq for Path): the
\* root, when the path is absolute, then its names.
Components(p) == (IF IsAbsolute(p) THEN <<"/">> ELSE <<>>) \o Names(p)

PathEq(p, q) == Components(p) = Components(q)

\* ------------------------------------------------------------- filesystem

\* A node is the sequence of names from the root to it; <<>> is the root.
Root == <<>>

\* The node whose names are the given single tokens.
Node(tokens) == [i \in 1..Len(tokens) |-> <<tokens[i]>>]

\* The working directory of the process, against which a relative path is
\* resolved.
Cwd == Node(<<"w">>)

\* The filesystem holds one symbolic link, /l, pointing to /p.
SymlinkAt == Node(<<"l">>)
SymlinkTarget == <<"/", "p">>

Prefixes(n) == {SubSeq(n, 1, k) : k \in 0..Len(n)}

Parent(n) == IF n = <<>> THEN <<>> ELSE SubSeq(n, 1, Len(n) - 1)

\* The path walk of the operating system: each name must exist under the
\* node reached so far, ".." steps to the parent, a symbolic link is replaced
\* by its target.  None when a component does not exist.
RECURSIVE Walk(_, _)
Walk(cur, rest) ==
  IF rest = <<>> THEN Some(cur)
  ELSE LET c == Head(rest)
           nxt == Append(cur, c)
       IN IF c = <<"..">> THEN Walk(Parent(cur), Tail(rest))
          ELSE IF nxt = SymlinkAt THEN Walk(Root, Names(SymlinkTarget) \o Tail(rest))
          ELSE IF nxt \in fs THEN Walk(nxt, Tail(rest))
          ELSE None

Lookup(p) ==
  IF p = <<>> THEN None
  ELSE Walk(IF IsAbsolute(p) THEN Root ELSE Cwd, Names(p))

RECURSIVE PathOfNode(_)
PathOfNode(n) ==
  IF n = <<>> THEN <<"/">>
  ELSE IF Len(n) = 1 THEN <<"/">> \o n[1]
  ELSE PathOfNode(Parent(n)) \o <<"/">> \o n[Len(n)]

\* Canonicalize that only checks the path and hands it back as it was given.
Canonicalize_KeepsPath(p) == IF Lookup(p).some THEN Ok(p) ELSE Err("io")

\* Path::canonicalize: the absolute path of the node the path leads to, with
\* links and ".." resolved; an error when the path leads nowhere.
Canonicalize(p) ==
  LET n == Lookup(p) IN IF n.some THEN Ok(PathOfNode(n.val)) ELSE Err("io")

\* Path::exists: the metadata of the path can be read (links followed).
Exists(p) == Lookup(p).some

\* ------------------------------------------------------------ environment

\* env::var
EnvVar(name) == IF env[name].some THEN Ok(env[name].val) ELSE Err("NotPresent")

\* SplitColon yielding the segments last to first.
RECURSIVE SplitColon_Reversed(_)
SplitColon_Reversed(s) ==
  IF \A i \in 1..Len(s) : s[i] # ":" THEN <<s>>
  ELSE LET i == CHOOSE k \in 1..Len(s) :
                  s[k] = ":" /\ \A j \in 1..(k - 1) : s[j] # ":"
       IN SplitColon_Reversed(SubSeq(s, i + 1, Len(s))) \o <<SubSeq(s, 1, i - 1)>>

\* str::split(':'): the segments between the colons, empty ones included; a
\* string with k colons has k + 1 segments.
RECURSIVE SplitColon(_)
SplitColon(s) ==
  IF \A i \in 1..Len(s) : s[i] # ":" THEN <<s>>
  ELSE LET i == CHOOSE k \in 1..Len(s) :
                  s[k] = ":" /\ \A j \in 1..(k - 1) : s[j] # ":"
       IN <<SubSeq(s, 1, i - 1)>> \o SplitColon(SubSeq(s, i + 1, Len(s)))

\* ------------------------------------------------------------- operations

\* xdg_user_dir consulting HOME before the primary variable.
xdg_user_dir_HomeFirst(d, suffix) ==
  LET primary == EnvVar(d.env_var)
      home == EnvVar("HOME")
      config_path ==
        IF d.home_fallback.some /\ home.ok
          THEN Ok(Push(home.val, d.home_fallback.val))
        ELSE IF primary.ok THEN Ok(primary.val)
        ELSE IF d.home_fallback.some THEN Err(NoHome)
        ELSE Err(EnvVarNotSet(d.env_var))
  IN IF config_path.ok THEN Ok(Push(config_path.val, suffix)) ELSE config_path

\* xdg_user_dir reporting NoHome for every failure.
xdg_user_dir_AlwaysNoHome(d, suffix) ==
  LET primary == EnvVar(d.env_var)
      home == EnvVar("HOME")
      config_path ==
        IF primary.ok THEN Ok(primary.val)
        ELSE IF d.home_fallback.some /\ home.ok
          THEN Ok(Push(home.val, d.home_fallback.val))
        ELSE Err(NoHome)
  IN IF config_path.ok THEN Ok(Push(config_path.val, suffix)) ELSE config_path

xdg_user_dir(d, suffix) ==
  LET primary == EnvVar(d.env_var)
      home == EnvVar("HOME")
      config_path ==
        IF primary.ok THEN Ok(primary.val)
        ELSE IF d.home_fallback.some
          THEN IF home.ok THEN Ok(Push(home.val, d.home_fallback.val))
               ELSE Err(NoHome)
          ELSE Err(EnvVarNotSet(d.env_var))
  IN IF config_path.ok THEN Ok(Push(config_path.val, suffix)) ELSE config_path

\* xdg_system_dirs without the is_empty test: an empty value is one segment.
xdg_system_dirs_EmptyIsSegment(d, suffix) ==
  LET val == IF d.system_var.some THEN EnvVar(d.system_var.val)
             ELSE Err("NotPresent")
  IN IF val.ok
       THEN LET segs == SplitColon(val.val)
            IN Ok([i \in 1..Len(segs) |-> Push(segs[i], suffix)])
     ELSE IF d.system_fallback.some
       THEN LET paths == d.system_fallback.val
            IN Ok([i \in 1..Len(paths) |-> Push(paths[i], suffix)])
     ELSE Err(NotFound(suffix))

xdg_system_dirs(d, suffix) ==
  LET val == IF d.system_var.some THEN EnvVar(d.system_var.val)
             ELSE Err("NotPresent")
  IN IF val.ok /\ val.val # <<>>
       THEN LET segs == SplitColon(val.val)
            IN Ok([i \in 1..Len(segs) |-> Push(segs[i], suffix)])
     ELSE IF d.system_fallback.some
       THEN LET paths == d.system_fallback.val
            IN Ok([i \in 1..Len(paths) |-> Push(paths[i], suffix)])
     ELSE Err(NotFound(suffix))

\* The loop over the system paths: the first one that canonicalizes, if any.
RECURSIVE FirstFound(_)
FirstFound(paths) ==
  IF paths = <<>> THEN None
  ELSE LET p == Canonicalize(Head(paths))
       IN IF p.ok /\ Exists(p.val) THEN Some(p.val)
          ELSE FirstFound(Tail(paths))

\* xdg_location_of searching the system paths before the user path.
xdg_location_of_SystemFirst(d, suffix) ==
  LET user == xdg_user_dir(d, suffix)
      user_loc == IF user.ok THEN FirstFound(<<user.val>>) ELSE None
      sys == xdg_system_dirs(d, suffix)
      sys_loc == IF sys.ok THEN FirstFound(sys.val) ELSE None
  IN IF sys_loc.some THEN Ok(sys_loc.val)
     ELSE IF user_loc.some THEN Ok(user_loc.val)
     ELSE Err(NotFound(suffix))

xdg_location_of(d, suffix) ==
  LET user == xdg_user_dir(d, suffix)
      user_loc == IF user.ok THEN FirstFound(<<user.val>>) ELSE None
      sys == xdg_system_dirs(d, suffix)
      sys_loc == IF sys.ok THEN FirstFound(sys.val) ELSE None
  IN IF user_loc.some THEN Ok(user_loc.val)
     ELSE IF sys_loc.some THEN Ok(sys_loc.val)
     ELSE Err(NotFound(suffix))

\* ----------------------------------------------------------------- inputs

\* The suffixes the operations are called with: the empty one and a name.
Suffixes == {<<>>, <<"s">>}

\* Values a user-level variable is set to: empty, absolute, relative, and a
\* path through the symbolic link.
UserVals == {<<>>, <<"/", "p">>, <<"r">>, <<"/", "l">>}

\* Values HOME is set to.
HomeVals == {<<"/", "p">>, <<>>, <<"r">>}

\* Values a system-level variable is set to: empty, two directories, a list
\* with an empty first segment, a directory reached through "..".
SysVals ==
  { <<>>,
    <<"/", "a", ":", "/", "b">>,
    <<":", "/", "a">>,
    <<"/", "a", "/", "..", "/", "b">> }

ValuesOf(name) ==
  IF name = "HOME" THEN HomeVals
  ELSE IF \E d \in Dirs : d.env_var = name THEN UserVals
  ELSE SysVals

\* The variables the operations read for a descriptor.
VarsRead(d) ==
  {"HOME", d.env_var} \cup (IF d.system_var.some THEN {d.system_var.val} ELSE {})

\* The files and directories that can be created.
Targets ==
  { Node(<<"p", "s">>), Node(<<"w", "r", "s">>), Node(<<"w", "s">>),
    Node(<<"p", ".config", "s">>), Node(<<"p", ".local", "share", "s">>),
    Node(<<"p", ".cache", "s">>), Node(<<"p", ".local", "state", "s">>),
    Node(<<"a", "s">>), Node(<<"b", "s">>), Node(<<"etc", "xdg", "s">>),
    Node(<<"usr", "local", "share", "s">>), Node(<<"usr", "share", "s">>) }

NoCall == [op |-> "none"]

\* ---------------------------------------------------------- state machine

Init ==
  /\ xdg_dir \in Dirs
  /\ env = [n \in EnvNames |-> None]
  /\ fs = {Root, Cwd}
  /\ last = NoCall

\* env::set_var
SetVar(name, value) ==
  /\ last = NoCall
  /\ env[name] # Some(value)
  /\ env' = [env EXCEPT ![name] = Some(value)]
  /\ UNCHANGED <<xdg_dir, fs, last>>

\* env::remove_var
RemoveVar(name) ==
  /\ last = NoCall
  /\ env[name].some
  /\ env' = [env EXCEPT ![name] = None]
  /\ UNCHANGED <<xdg_dir, fs, last>>

\* fs::create_dir_all / File::create
CreateDirAll(node) ==
  /\ last = NoCall
  /\ node \notin fs
  /\ Cardinality((fs \cup {node}) \cap Targets) <= MaxFiles
  /\ fs' = fs \cup Prefixes(node)
  /\ UNCHANGED <<xdg_dir, env, last>>

CallUserDir(suffix) ==
  /\ last = NoCall
  /\ last' = [op |-> "xdg_user_dir", suffix |-> suffix,
              result |-> xdg_user_dir(xdg_dir, suffix)]
  /\ UNCHANGED <<xdg_dir, env, fs>>

CallSystemDirs(suffix) ==
  /\ last = NoCall
  /\ last' = [op |-> "xdg_system_dirs", suffix |-> suffix,
              result |-> xdg_system_dirs(xdg_dir, suffix)]
  /\ UNCHANGED <<xdg_dir, env, fs>>

CallLocationOf(suffix) ==
  /\ last = NoCall
  /\ last' = [op |-> "xdg_location_of", suffix |-> suffix,
              result |-> xdg_location_of(xdg_dir, suffix)]
  /\ UNCHANGED <<xdg_dir, env, fs>>

\* The caller is done with the result; nothing of a call is retained.
Drop ==
  /\ last # NoCall
  /\ last' = NoCall
  /\ UNCHANGED <<xdg_dir, env, fs>>

Next ==
  \/ \E name \in VarsRead(xdg_dir) : \E value \in ValuesOf(name) : SetVar(name, value)
  \/ \E name \in VarsRead(xdg_dir) : RemoveVar(name)
  \/ \E node \in Targets : CreateDirAll(node)
  \/ \E suffix \in Suffixes : CallUserDir(suffix)
  \/ \E suffix \in Suffixes : CallSystemDirs(suffix)
  \/ \E suffix \in Suffixes : CallLocationOf(suffix)
  \/ Drop

Spec == Init /\ [][Next]_vars

\* ------------------------------------------------- vocabulary of the claims

\* What the calls of the three operations return in the current state, for the
\* suffix of the call on record.
UserPath == xdg_user_dir(xdg_dir, last.suffix)
SystemPaths == xdg_system_dirs(xdg_dir, last.suffix)

\* The candidates in precedence order: the user path, when it resolves, then
\* the system paths, when the category has them.
Candidates ==
  (IF UserPath.ok THEN <<UserPath.val>> ELSE <<>>)
    \o (IF SystemPaths.ok THEN SystemPaths.val ELSE <<>>)

Existing == {i \in 1..Len(Candidates) : Exists(Candidates[i])}

FirstExisting == Candidates[CHOOSE i \in Existing : \A j \in Existing : i <= j]

\* Two paths lead to the same file.
SameFile(p, q) == Lookup(p).some /\ Lookup(p) = Lookup(q)

\* A path is absolute and each of its names is an entry of the directory
\* before it: no name is "..", none is a symbolic link.
IsResolved(p) ==
  /\ IsAbsolute(p)
  /\ \A k \in 1..Len(Names(p)) : SubSeq(Names(p), 1, k) \in fs

\* A path is the canonical one of its file: resolved and written with single
\* separators and none at the end.
IsCanonicalPath(p) == IsResolved(p) /\ p = PathOfNode(Names(p))

\* The i-th of the segments a string's colons cut it into, read off the
\* positions of the colons.
Colons(s) == {k \in 1..Len(s) : s[k] = ":"}
NthColon(s, i) == CHOOSE c \in Colons(s) : Cardinality({x \in Colons(s) : x < c}) = i - 1
NthSegment(s, i) ==
  LET from == IF i = 1 THEN 1 ELSE NthColon(s, i - 1) + 1
      to == IF i = Cardinality(Colons(s)) + 1 THEN Len(s) ELSE NthColon(s, i) - 1
  IN SubSeq(s, from, to)

\* The value a user path is built from: the primary variable's, when it is
\* set, else HOME's.
BaseValue ==
  IF env[xdg_dir.env_var].some THEN env[xdg_dir.env_var].val ELSE env["HOME"].val

\* -------------------------------------------------------------------- C1

\* C1 as stated: whenever a candidate exists, xdg_location_of returns the
\* first candidate, in precedence order, that exists (the user path when it
\* exists, else the earliest existing system path).
C1_ReturnsFirstExistingCandidate ==
  (last.op = "xdg_location_of" /\ Existing # {}) =>
    /\ last.result.ok
    /\ PathEq(last.result.val, FirstExisting)

\* C1, amended: whenever a candidate exists, xdg_location_of returns the
\* canonical path of the first candidate, in precedence order, that exists.
C1_ReturnsCanonicalOfFirstExisting ==
  (last.op = "xdg_location_of" /\ Existing # {}) =>
    /\ last.result.ok
    /\ IsCanonicalPath(last.result.val)
    /\ SameFile(last.result.val, FirstExisting)

\* The user path and a system path both exist, as different files, and the
\* search has returned.
C1_Witness ==
  /\ last.op = "xdg_location_of"
  /\ last.result.ok
  /\ UserPath.ok /\ Exists(UserPath.val)
  /\ SystemPaths.ok
  /\ \E i \in 1..Len(SystemPaths.val) :
       /\ Exists(SystemPaths.val[i])
       /\ ~SameFile(SystemPaths.val[i], UserPath.val)

\* -------------------------------------------------------------------- C2

\* C2: when no candidate exists, xdg_location_of fails with NotFound carrying
\* the suffix and the ordered list of every candidate that was tried.
C2_NotFoundListsTried ==
  (last.op = "xdg_location_of" /\ Existing = {}) =>
    /\ ~last.result.ok
    /\ last.result.err.kind = "NotFound"
    /\ last.result.err.suffix = last.suffix
    /\ "tried" \in DOMAIN last.result.err
    /\ last.result.err.tried = Candidates

\* -------------------------------------------------------------------- C3

\* C3: for a descriptor with neither a system variable nor system fallback
\* dirs, xdg_system_dirs fails with SystemDirNotApplicable, never NotFound.
C3_SystemDirNotApplicable ==
  ( /\ last.op = "xdg_system_dirs"
    /\ ~xdg_dir.system_var.some
    /\ ~xdg_dir.system_fallback.some ) =>
    /\ ~last.result.ok
    /\ last.result.err.kind = "SystemDirNotApplicable"

\* -------------------------------------------------------------------- C4

\* C4: with the system variable set to a non-empty value, xdg_system_dirs
\* returns one path per colon-separated segment of the value, the i-th being
\* the i-th segment with the suffix appended.
C4_OnePathPerSegment ==
  ( /\ last.op = "xdg_system_dirs"
    /\ xdg_dir.system_var.some
    /\ env[xdg_dir.system_var.val].some
    /\ env[xdg_dir.system_var.val].val # <<>> ) =>
    LET val == env[xdg_dir.system_var.val].val
    IN /\ last.result.ok
       /\ Len(last.result.val) = Cardinality(Colons(val)) + 1
       /\ \A i \in 1..Len(last.result.val) :
            Components(last.result.val[i])
              = Components(NthSegment(val, i)) \o Names(last.suffix)

\* A value of two segments has been resolved with a non-empty suffix.
C4_Witness ==
  /\ last.op = "xdg_system_dirs"
  /\ last.suffix # <<>>
  /\ xdg_dir.system_var.some
  /\ env[xdg_dir.system_var.val] = Some(<<"/", "a", ":", "/", "b">>)
  /\ last.result.ok
  /\ Len(last.result.val) = 2

\* -------------------------------------------------------------------- C5

\* C5: with the system variable unset or empty, xdg_system_dirs of config
\* returns [/etc/xdg/<suffix>] and of data returns [/usr/local/share/<suffix>,
\* /usr/share/<suffix>].
C5_FallbackDirs ==
  ( /\ last.op = "xdg_system_dirs"
    /\ xdg_dir.system_fallback.some
    /\ xdg_dir.system_var.some
    /\ env[xdg_dir.system_var.val] \in {None, Some(<<>>)} ) =>
    /\ last.result.ok
    /\ xdg_dir = CONFIG =>
         /\ Len(last.result.val) = 1
         /\ Components(last.result.val[1])
              = <<"/", <<"etc">>, <<"xdg">> >> \o Names(last.suffix)
    /\ xdg_dir = DATA =>
         /\ Len(last.result.val) = 2
         /\ Components(last.result.val[1])
              = <<"/", <<"usr">>, <<"local">>, <<"share">> >> \o Names(last.suffix)
         /\ Components(last.result.val[2])
              = <<"/", <<"usr">>, <<"share">> >> \o Names(last.suffix)
    /\ xdg_dir \in {CONFIG, DATA}

\* The system variable of data is set to the empty string and the system dirs
\* have been resolved.
C5_Witness ==
  /\ last.op = "xdg_system_dirs"
  /\ xdg_dir = DATA
  /\ env["XDG_DATA_DIRS"] = Some(<<>>)
  /\ last.result.ok

\* -------------------------------------------------------------------- C6

\* C6: whenever the primary variable is set, even to the empty string,
\* xdg_user_dir succeeds with that value and the suffix appended, whatever
\* HOME is.
C6_PrimaryValueWins ==
  (last.op = "xdg_user_dir" /\ env[xdg_dir.env_var].some) =>
    /\ last.result.ok
    /\ Components(last.result.val)
         = Components(env[xdg_dir.env_var].val) \o Names(last.suffix)

\* The primary variable is set to the empty string, HOME is set too, and the
\* user path has been resolved.
C6_Witness ==
  /\ last.op = "xdg_user_dir"
  /\ env[xdg_dir.env_var] = Some(<<>>)
  /\ env["HOME"].some
  /\ xdg_dir.home_fallback.some
  /\ last.result.ok

\* -------------------------------------------------------------------- C7

\* C7: for a descriptor with a home fallback, with the primary variable unset
\* and HOME set to h, xdg_user_dir returns h/<home fallback>/<suffix>.
C7_HomeFallback ==
  ( /\ last.op = "xdg_user_dir"
    /\ xdg_dir.home_fallback.some
    /\ ~env[xdg_dir.env_var].some
    /\ env["HOME"].some ) =>
    /\ last.result.ok
    /\ Components(last.result.val)
         = Components(env["HOME"].val) \o Names(xdg_dir.home_fallback.val)
             \o Names(last.suffix)

\* HOME is /p, the primary variable of state is unset, and the user path has
\* been resolved with a non-empty suffix.
C7_Witness ==
  /\ last.op = "xdg_user_dir"
  /\ xdg_dir = STATE_DIR
  /\ ~env[xdg_dir.env_var].some
  /\ env["HOME"] = Some(<<"/", "p">>)
  /\ last.suffix # <<>>
  /\ last.result.ok

\* -------------------------------------------------------------------- C8

\* C8: xdg_user_dir fails only with the primary variable unset; then it fails
\* with NoHome exactly when the descriptor has a home fallback and HOME is
\* unset, and with EnvVarNotSet(primary variable) exactly when the descriptor
\* has no home fallback.
C8_FailuresOfUserDir ==
  last.op = "xdg_user_dir" =>
    /\ ~last.result.ok => ~env[xdg_dir.env_var].some
    /\ ~env[xdg_dir.env_var].some =>
         /\ (xdg_dir.home_fallback.some /\ ~env["HOME"].some)
              <=> (~last.result.ok /\ last.result.err = NoHome)
         /\ ~xdg_dir.home_fallback.some
              <=> (~last.result.ok /\ last.result.err = EnvVarNotSet(xdg_dir.env_var))

\* The user path of runtime has been asked for with its variable unset and
\* HOME set.
C8_Witness ==
  /\ last.op = "xdg_user_dir"
  /\ xdg_dir = RUNTIME
  /\ ~env[xdg_dir.env_var].some
  /\ env["HOME"].some
  /\ ~last.result.ok

\* -------------------------------------------------------------------- C9

\* C9 as stated: if the user path resolves and exists, xdg_location_of
\* returns that same path value.
C9_RoundTripSamePath ==
  (last.op = "xdg_location_of" /\ UserPath.ok /\ Exists(UserPath.val)) =>
    /\ last.result.ok
    /\ PathEq(last.result.val, UserPath.val)

\* C9, amended: if the user path resolves and exists, xdg_location_of returns
\* the canonical path of the same file, which is the user path's own value
\* exactly when the user path is absolute and free of links and "..".
C9_RoundTripCanonical ==
  (last.op = "xdg_location_of" /\ UserPath.ok /\ Exists(UserPath.val)) =>
    /\ last.result.ok
    /\ IsCanonicalPath(last.result.val)
    /\ SameFile(last.result.val, UserPath.val)
    /\ PathEq(last.result.val, UserPath.val) <=> IsResolved(UserPath.val)

\* The user path runs through the symbolic link, exists, and the search has
\* returned.
C9_Witness ==
  /\ last.op = "xdg_location_of"
  /\ env[xdg_dir.env_var] = Some(<<"/", "l">>)
  /\ UserPath.ok /\ Exists(UserPath.val)
  /\ last.result.ok

\* ------------------------------------------------------------------- C10

\* C10 as stated: whenever xdg_user_dir succeeds, the path it returns is
\* absolute.
C10_UserDirAbsolute ==
  (last.op = "xdg_user_dir" /\ last.result.ok) => IsAbsolute(last.result.val)

\* C10, amended: whenever xdg_user_dir succeeds, the path it returns is
\* absolute exactly when the value it is built from (the primary variable's,
\* else HOME's) is absolute.
C10_AbsoluteIffBaseAbsolute ==
  (last.op = "xdg_user_dir" /\ last.result.ok) =>
    (IsAbsolute(last.result.val) <=> IsAbsolute(BaseValue))

\* The user path has been resolved from an empty or relative value.
C10_Witness ==
  /\ last.op = "xdg_user_dir"
  /\ last.result.ok
  /\ ~IsAbsolute(BaseValue)
  /\ last.suffix # <<>>

====
